---- MODULE Spec2Model ----
(***************************************************************************)
(* Two C programs of the repository, each a main thread plus two worker    *)
(* threads t1, t2 (modelled as threads 1 and 2):                           *)
(*   c_examples/peterson_algorithm.c     counter increments bracketed by   *)
(*                                       Peterson's entry/exit protocol    *)
(*   c_examples/race_condition_example.c the same increments, unprotected  *)
(* Every load and store of flag / turn (seq_cst atomics) is one step.      *)
(* A seq_cst store is visible to the other thread at once, so sb stays     *)
(* empty, except under TsoSpec, which spells out how a store-buffering     *)
(* machine gets that order.                                                *)
(* The plain accesses of counter are one step per C statement.  Both       *)
(* programs declare counter, i, temp, t1, t2; one specification runs one   *)
(* program, so the two programs use the same variables.                    *)
(***************************************************************************)
EXTENDS Integers, Naturals, Sequences, FiniteSets, TLC

VARIABLES
    ITERATIONS, \* the #define ITERATIONS the program was built with
    flag,       \* _Atomic bool flag[2]
    turn,       \* _Atomic int turn
    counter,    \* long counter
    id,         \* id[t]: the int that thread t's arg points to
    pc,         \* pc[t]: the statement thread t executes next
    i,          \* i[t]: the loop variable of thread t
    temp,       \* temp[t]: the local temp of thread t
    mainpc,     \* the statement main executes next
    verdict,    \* which branch of main's final if was printed
    lost,       \* the lost-update count printed by the baseline's main
    sb          \* sb[t]: stores of thread t not yet visible to the other thread

vars == <<ITERATIONS, flag, turn, counter, id, pc, i, temp, mainpc, verdict, lost, sb>>

\* Largest value of ITERATIONS the model is built with.
MaxIter == 6

Threads == {1, 2}

EvenIterations == {n \in 0..MaxIter : n % 2 = 0}

\* id0 = 0 goes to t1, id1 = 1 goes to t2.
MainIds == <<0, 1>>

\* The same two ids handed to the threads the other way round.
SwappedIds == <<1, 0>>

\* ITERATIONS/2, C integer division of a non-negative int.
Half_roundUp == (ITERATIONS + 1) \div 2

Half == ITERATIONS \div 2

\* int other = 1 - id;
Other(t) == 1 - id[t]

\* The state after the static initialisers, before main's first statement.
InitWith(Ns, idss) ==
    /\ ITERATIONS \in Ns
    /\ flag = [p \in {0, 1} |-> FALSE]
    /\ turn = 0
    /\ counter = 0
    /\ id \in idss
    /\ pc = [t \in Threads |-> "not_started"]
    /\ i = [t \in Threads |-> 0]
    /\ temp = [t \in Threads |-> 0]
    /\ mainpc = "create_t1"
    /\ verdict = "none"
    /\ lost = 0
    /\ sb = [t \in Threads |-> <<>>]

Goto(t, l) == pc' = [pc EXCEPT ![t] = l]

(***************************************************************************)
(* peterson_algorithm.c: peterson_process                                  *)
(***************************************************************************)

\* for (...; i < ITERATIONS/2; ...)
ForCond(t) ==
    /\ pc[t] = "for_cond"
    /\ IF i[t] < Half THEN Goto(t, "store_flag") ELSE Goto(t, "returned")
    /\ UNCHANGED <<ITERATIONS, flag, turn, counter, id, i, temp, mainpc, verdict, lost, sb>>

\* atomic_store_explicit(&flag[id], true, memory_order_seq_cst);
StoreFlag_false(t) ==
    /\ pc[t] = "store_flag"
    /\ flag' = [flag EXCEPT ![id[t]] = FALSE]
    /\ Goto(t, "store_turn")
    /\ UNCHANGED <<ITERATIONS, turn, counter, id, i, temp, mainpc, verdict, lost, sb>>

StoreFlag_other(t) ==
    /\ pc[t] = "store_flag"
    /\ flag' = [flag EXCEPT ![Other(t)] = TRUE]
    /\ Goto(t, "store_turn")
    /\ UNCHANGED <<ITERATIONS, turn, counter, id, i, temp, mainpc, verdict, lost, sb>>

StoreFlag(t) ==
    /\ pc[t] = "store_flag"
    /\ flag' = [flag EXCEPT ![id[t]] = TRUE]
    /\ Goto(t, "store_turn")
    /\ UNCHANGED <<ITERATIONS, turn, counter, id, i, temp, mainpc, verdict, lost, sb>>

\* atomic_store_explicit(&turn, other, memory_order_seq_cst);
StoreTurn_self(t) ==
    /\ pc[t] = "store_turn"
    /\ turn' = id[t]
    /\ Goto(t, "load_flag")
    /\ UNCHANGED <<ITERATIONS, flag, counter, id, i, temp, mainpc, verdict, lost, sb>>

StoreTurn_byThread(t) ==
    /\ pc[t] = "store_turn"
    /\ turn' = (IF t = 1 THEN 1 ELSE 0)
    /\ Goto(t, "load_flag")
    /\ UNCHANGED <<ITERATIONS, flag, counter, id, i, temp, mainpc, verdict, lost, sb>>

StoreTurn_two(t) ==
    /\ pc[t] = "store_turn"
    /\ turn' = 2 - id[t]
    /\ Goto(t, "load_flag")
    /\ UNCHANGED <<ITERATIONS, flag, counter, id, i, temp, mainpc, verdict, lost, sb>>

StoreTurn(t) ==
    /\ pc[t] = "store_turn"
    /\ turn' = Other(t)
    /\ Goto(t, "load_flag")
    /\ UNCHANGED <<ITERATIONS, flag, counter, id, i, temp, mainpc, verdict, lost, sb>>

\* while (atomic_load_explicit(&flag[other], ...) && ...): the left operand.
\* A false left operand ends the loop without loading turn.
LoadFlag(t) ==
    /\ pc[t] = "load_flag"
    /\ IF flag[Other(t)] THEN Goto(t, "load_turn") ELSE Goto(t, "cs_read")
    /\ UNCHANGED <<ITERATIONS, flag, turn, counter, id, i, temp, mainpc, verdict, lost, sb>>

\* ... && atomic_load_explicit(&turn, ...) == other) { }: the right operand.
\* The loop body is empty, so a true condition goes back to the left operand.
LoadTurn_always(t) ==
    /\ pc[t] = "load_turn"
    /\ Goto(t, "cs_read")
    /\ UNCHANGED <<ITERATIONS, flag, turn, counter, id, i, temp, mainpc, verdict, lost, sb>>

LoadTurn(t) ==
    /\ pc[t] = "load_turn"
    /\ IF turn = Other(t) THEN Goto(t, "load_flag") ELSE Goto(t, "cs_read")
    /\ UNCHANGED <<ITERATIONS, flag, turn, counter, id, i, temp, mainpc, verdict, lost, sb>>

\* long temp = counter;
CsRead(t) ==
    /\ pc[t] = "cs_read"
    /\ temp' = [temp EXCEPT ![t] = counter]
    /\ Goto(t, "cs_add")
    /\ UNCHANGED <<ITERATIONS, flag, turn, counter, id, i, mainpc, verdict, lost, sb>>

\* temp = temp + 1;
CsAdd_none(t) ==
    /\ pc[t] = "cs_add"
    /\ temp' = temp
    /\ Goto(t, "cs_write")
    /\ UNCHANGED <<ITERATIONS, flag, turn, counter, id, i, mainpc, verdict, lost, sb>>

CsAdd(t) ==
    /\ pc[t] = "cs_add"
    /\ temp' = [temp EXCEPT ![t] = temp[t] + 1]
    /\ Goto(t, "cs_write")
    /\ UNCHANGED <<ITERATIONS, flag, turn, counter, id, i, mainpc, verdict, lost, sb>>

\* counter = temp;
CsWrite(t) ==
    /\ pc[t] = "cs_write"
    /\ counter' = temp[t]
    /\ Goto(t, "exit_store")
    /\ UNCHANGED <<ITERATIONS, flag, turn, id, i, temp, mainpc, verdict, lost, sb>>

\* atomic_store_explicit(&flag[id], false, memory_order_seq_cst);
ExitStore_skip(t) ==
    /\ pc[t] = "exit_store"
    /\ Goto(t, "for_incr")
    /\ UNCHANGED <<ITERATIONS, flag, turn, counter, id, i, temp, mainpc, verdict, lost, sb>>

ExitStore(t) ==
    /\ pc[t] = "exit_store"
    /\ flag' = [flag EXCEPT ![id[t]] = FALSE]
    /\ Goto(t, "for_incr")
    /\ UNCHANGED <<ITERATIONS, turn, counter, id, i, temp, mainpc, verdict, lost, sb>>

\* for (...; ...; i++)
ForIncr(t) ==
    /\ pc[t] = "for_incr"
    /\ i' = [i EXCEPT ![t] = i[t] + 1]
    /\ Goto(t, "for_cond")
    /\ UNCHANGED <<ITERATIONS, flag, turn, counter, id, temp, mainpc, verdict, lost, sb>>

peterson_process(t) ==
    \/ ForCond(t)
    \/ StoreFlag(t)
    \/ StoreTurn(t)
    \/ LoadFlag(t)
    \/ LoadTurn(t)
    \/ CsRead(t)
    \/ CsAdd(t)
    \/ CsWrite(t)
    \/ ExitStore(t)
    \/ ForIncr(t)

(***************************************************************************)
(* main of either program: create t1, create t2, join t1, join t2          *)
(***************************************************************************)

\* pthread_create(&t, NULL, ..., ...): the new thread starts at its for loop
\* with int i = 0.
Create(t, here, next) ==
    /\ mainpc = here
    /\ pc[t] = "not_started"
    /\ Goto(t, "for_cond")
    /\ i' = [i EXCEPT ![t] = 0]
    /\ mainpc' = next
    /\ UNCHANGED <<ITERATIONS, flag, turn, counter, id, temp, verdict, lost, sb>>

\* pthread_join(t, NULL): returns once thread t has returned.
Join_nowait(t, here, next) ==
    /\ mainpc = here
    /\ mainpc' = next
    /\ UNCHANGED <<ITERATIONS, flag, turn, counter, id, pc, i, temp, verdict, lost, sb>>

Join(t, here, next) ==
    /\ mainpc = here
    /\ pc[t] = "returned"
    /\ mainpc' = next
    /\ UNCHANGED <<ITERATIONS, flag, turn, counter, id, pc, i, temp, verdict, lost, sb>>

\* peterson_algorithm.c: printf of counter, then if (counter == ITERATIONS).
PetersonReport ==
    /\ mainpc = "report"
    /\ verdict' = IF counter = ITERATIONS THEN "success" ELSE "unexpected"
    /\ mainpc' = "done"
    /\ UNCHANGED <<ITERATIONS, flag, turn, counter, id, pc, i, temp, lost, sb>>

peterson_main ==
    \/ Create(1, "create_t1", "create_t2")
    \/ Create(2, "create_t2", "join_t1")
    \/ Join(1, "join_t1", "join_t2")
    \/ Join(2, "join_t2", "report")
    \/ PetersonReport

Init == InitWith(EvenIterations, {MainIds})

Next == peterson_main \/ \E t \in Threads : peterson_process(t)

Spec == Init /\ [][Next]_vars

\* The scheduler runs every thread that can take a step: two preemptively
\* scheduled threads and main, none of which is ever suspended for good.
FairSpec ==
    /\ Spec
    /\ \A t \in Threads : WF_vars(peterson_process(t))
    /\ WF_vars(peterson_main)

\* The protected program with the two ids handed out either way round.
InitSwap == InitWith(EvenIterations, {MainIds, SwappedIds})

SwapSpec == InitSwap /\ [][Next]_vars

(***************************************************************************)
(* race_condition_example.c: increment_counter                             *)
(***************************************************************************)

\* for (...; i < ITERATIONS/2; ...)
RaceForCond(t) ==
    /\ pc[t] = "for_cond"
    /\ IF i[t] < Half THEN Goto(t, "read") ELSE Goto(t, "returned")
    /\ UNCHANGED <<ITERATIONS, flag, turn, counter, id, i, temp, mainpc, verdict, lost, sb>>

\* long temp = counter;
RaceRead(t) ==
    /\ pc[t] = "read"
    /\ temp' = [temp EXCEPT ![t] = counter]
    /\ Goto(t, "usleep")
    /\ UNCHANGED <<ITERATIONS, flag, turn, counter, id, i, mainpc, verdict, lost, sb>>

\* usleep(1);
RaceSleep(t) ==
    /\ pc[t] = "usleep"
    /\ Goto(t, "add")
    /\ UNCHANGED <<ITERATIONS, flag, turn, counter, id, i, temp, mainpc, verdict, lost, sb>>

\* temp = temp + 1;
RaceAdd_two(t) ==
    /\ pc[t] = "add"
    /\ temp' = [temp EXCEPT ![t] = temp[t] + 2]
    /\ Goto(t, "write")
    /\ UNCHANGED <<ITERATIONS, flag, turn, counter, id, i, mainpc, verdict, lost, sb>>

RaceAdd(t) ==
    /\ pc[t] = "add"
    /\ temp' = [temp EXCEPT ![t] = temp[t] + 1]
    /\ Goto(t, "write")
    /\ UNCHANGED <<ITERATIONS, flag, turn, counter, id, i, mainpc, verdict, lost, sb>>

\* counter = temp;
RaceWrite_fresh(t) ==
    /\ pc[t] = "write"
    /\ counter' = counter + 1
    /\ Goto(t, "for_incr")
    /\ UNCHANGED <<ITERATIONS, flag, turn, id, i, temp, mainpc, verdict, lost, sb>>

RaceWrite(t) ==
    /\ pc[t] = "write"
    /\ counter' = temp[t]
    /\ Goto(t, "for_incr")
    /\ UNCHANGED <<ITERATIONS, flag, turn, id, i, temp, mainpc, verdict, lost, sb>>

increment_counter(t) ==
    \/ RaceForCond(t)
    \/ RaceRead(t)
    \/ RaceSleep(t)
    \/ RaceAdd(t)
    \/ RaceWrite(t)
    \/ ForIncr(t)

\* race_condition_example.c: printf of counter, then if (counter < ITERATIONS)
\* prints ITERATIONS - counter as the number of lost updates.
RaceReport ==
    /\ mainpc = "report"
    /\ IF counter < ITERATIONS
         THEN verdict' = "race_detected" /\ lost' = ITERATIONS - counter
         ELSE verdict' = "no_race" /\ lost' = lost
    /\ mainpc' = "done"
    /\ UNCHANGED <<ITERATIONS, flag, turn, counter, id, pc, i, temp, sb>>

race_main ==
    \/ Create(1, "create_t1", "create_t2")
    \/ Create(2, "create_t2", "join_t1")
    \/ Join(1, "join_t1", "join_t2")
    \/ Join(2, "join_t2", "report")
    \/ RaceReport

RaceNext == race_main \/ \E t \in Threads : increment_counter(t)

RaceSpec == Init /\ [][RaceNext]_vars

(***************************************************************************)
(* Vocabulary of the properties                                            *)
(***************************************************************************)

\* Thread t has left its busy-wait loop and not yet executed its exit store.
InCS(t) == pc[t] \in {"cs_read", "cs_add", "cs_write", "exit_store"}

\* Thread t is inside its entry-wait loop (both entry stores done).
Waiting(t) == pc[t] \in {"load_flag", "load_turn"}

\* The busy-wait condition of thread t, evaluated on the shared state.
WaitCond(t) == flag[Other(t)] /\ turn = Other(t)

Returned(t) == pc[t] = "returned"

Finished == mainpc = "done"

(***************************************************************************)
(* Properties of the protected program                                     *)
(***************************************************************************)

\* C1: mutual exclusion. In every reachable state at most one thread is
\* between leaving its busy-wait loop and executing its exit store.
C1_MutualExclusion ==
    \A s, t \in Threads : s # t => ~(InCS(s) /\ InCS(t))

\* One thread holds the critical section while the other, interested, spins.
C1_Witness ==
    \E s, t \in Threads :
        s # t /\ InCS(s) /\ Waiting(t) /\ flag[0] /\ flag[1]

\* C2: no lost updates. Once main has joined both threads and evaluated its
\* final if, counter = ITERATIONS and the success branch was taken; the
\* "Unexpected result" branch is never taken.
C2_NoLostUpdates ==
    /\ verdict # "unexpected"
    /\ Finished => (counter = ITERATIONS /\ verdict = "success")

C2_Witness ==
    Finished /\ ITERATIONS > 0 /\ counter = ITERATIONS /\ verdict = "success"

\* C3: starvation freedom. Under weak fairness of every thread, a thread
\* that has executed the store flag[id] = true eventually leaves its
\* busy-wait loop and is in the critical section.
C3_StarvationFreedom ==
    \A t \in Threads : (pc[t] = "store_turn") ~> InCS(t)

\* A thread spins on a true wait condition while the other thread is in the
\* critical section of a later iteration (it has re-entered).
C3_Witness ==
    \E s, t \in Threads :
        s # t /\ Waiting(t) /\ WaitCond(t) /\ InCS(s) /\ i[s] >= 1

\* C4: termination. Under weak fairness both threads complete all
\* ITERATIONS/2 iterations and return and main prints its verdict; main is
\* past its joins (reading counter) only when both threads have returned.
C4_Termination ==
    /\ <>(Finished /\ \A t \in Threads : Returned(t) /\ i[t] = Half)
    /\ [](mainpc \in {"report", "done"} => \A t \in Threads : Returned(t))

C4_Witness ==
    Finished /\ Half > 0 /\ \A t \in Threads : Returned(t) /\ i[t] = Half

\* C5: deadlock freedom. The two busy-wait conditions are never true
\* together, and whenever both threads are inside their wait loops exactly
\* one of the two conditions is true: one spins, the other can proceed.
C5_DeadlockFreedom ==
    /\ ~(WaitCond(1) /\ WaitCond(2))
    /\ (Waiting(1) /\ Waiting(2)) => (WaitCond(1) # WaitCond(2))

C5_Witness ==
    Waiting(1) /\ Waiting(2)

\* C6: enter postcondition. On the step that takes a thread out of its
\* busy-wait loop, the other participant's flag is false or turn is the
\* thread's own id, and no other thread is in the critical section.
C6_EnterPostcondition ==
    [][\A t \in Threads :
        (Waiting(t) /\ InCS(t)') =>
            /\ (~flag'[Other(t)] \/ turn' = id[t])
            /\ \A s \in Threads \ {t} : ~InCS(s)']_vars

\* A thread has just left the loop on the turn tie-break: the other
\* participant is interested and turn is the thread's own id.
C6_Witness ==
    \E t \in Threads :
        pc[t] = "cs_read" /\ flag[Other(t)] /\ turn = id[t]

\* C7: turn invariant. turn is 0 or 1 in every reachable state, so every
\* load of turn observes 0 or 1.
C7_TurnInvariant ==
    turn \in {0, 1}

\* Both threads are in their wait loops after turn was overwritten to 1.
C7_Witness ==
    Waiting(1) /\ Waiting(2) /\ turn = 1

\* C8: id symmetry. With the ids 0 and 1 handed to t1 and t2 either way
\* round, mutual exclusion, deadlock freedom and final counter = ITERATIONS
\* all hold.
C8_IdSymmetry ==
    /\ \A s, t \in Threads : s # t => ~(InCS(s) /\ InCS(t))
    /\ (Waiting(1) /\ Waiting(2)) => (WaitCond(1) # WaitCond(2))
    /\ Finished => counter = ITERATIONS

\* A run with the swapped labels that has finished with the full count.
C8_Witness ==
    id = SwappedIds /\ Finished /\ ITERATIONS > 0 /\ counter = ITERATIONS

(***************************************************************************)
(* Properties of the unsynchronized baseline                               *)
(***************************************************************************)

\* C9: baseline upper bound. counter never exceeds ITERATIONS; the
\* "No race detected" branch is taken only with counter = ITERATIONS and
\* the lost-update count printed by the other branch is strictly positive.
C9_BaselineUpperBound ==
    /\ counter <= ITERATIONS
    /\ verdict = "no_race" => counter = ITERATIONS
    /\ verdict = "race_detected" => (lost > 0 /\ lost = ITERATIONS - counter)

C9_Witness ==
    Finished /\ ITERATIONS > 0 /\ verdict = "no_race"

\* The value thread t read from counter in its pending read-modify-write.
ReadValue(t) == IF pc[t] = "write" THEN temp[t] - 1 ELSE temp[t]

\* Both threads have read the same counter value and neither has written.
BothReadSame ==
    /\ \A t \in Threads : pc[t] \in {"usleep", "add", "write"}
    /\ ReadValue(1) = ReadValue(2)

\* C10: lost update. Once both threads have read the same counter value
\* before either writes it back, the final counter is strictly less than
\* ITERATIONS (C10_Witness: such a run exists; C9_Witness: so does a run
\* with the full count).
C10_LostUpdate ==
    [](BothReadSame => [](Finished => counter < ITERATIONS))

C10_Witness ==
    Finished /\ counter < ITERATIONS /\ verdict = "race_detected"

(***************************************************************************)
(* Further properties of the protected program                             *)
(***************************************************************************)

\* Thread t has completed both entry stores of its current iteration and
\* has not yet executed its exit store.
Contending(t) == Waiting(t) \/ InCS(t)

\* C11: tie-break invariant. Whenever both threads have completed both
\* entry stores and neither has executed its exit store, a thread that is
\* inside the critical section has id equal to turn.
C11_TieBreak ==
    (\A t \in Threads : Contending(t)) =>
        \A t \in Threads : InCS(t) => turn = id[t]

\* Both contend and one of them has won the tie-break.
C11_Witness ==
    /\ \A t \in Threads : Contending(t)
    /\ \E t \in Threads : InCS(t)

\* Thread t takes a step (its program counter moves).
Steps(t) == pc'[t] # pc[t]

\* C12: write discipline. A step of thread t never changes flag[other];
\* turn changes only on a thread's second entry store and then becomes that
\* thread's other id; counter changes only on a step of a thread inside the
\* critical section; a step inside the busy-wait loop changes no shared
\* variable.
C12_WriteDiscipline ==
    [][/\ \A t \in Threads :
            Steps(t) => flag'[Other(t)] = flag[Other(t)]
       /\ turn' # turn =>
            \E t \in Threads :
                pc[t] = "store_turn" /\ Steps(t) /\ turn' = 1 - id[t]
       /\ counter' # counter =>
            \E t \in Threads : InCS(t) /\ Steps(t)
       /\ \A t \in Threads :
            (Waiting(t) /\ Steps(t)) => UNCHANGED <<flag, turn, counter>>]_vars

\* One thread has just written counter inside the critical section while
\* the other, which overwrote turn last, spins.
C12_Witness ==
    \E s, t \in Threads :
        /\ s # t
        /\ pc[s] = "exit_store" /\ counter = temp[s] /\ counter > 0
        /\ Waiting(t) /\ turn = Other(t)

\* The thread other than t.
Peer(t) == 3 - t

\* Thread t is between its exit store and its next entry store, or has
\* finished all its iterations.
Outside(t) == pc[t] \in {"for_incr", "for_cond", "store_flag", "returned"}

\* Thread t goes round its busy-wait loop once more: the condition it
\* evaluated was true.
LoopsBack(t) == pc[t] = "load_turn" /\ pc'[t] = "load_flag"

\* C13 as stated: once a thread has finished all its iterations the other
\* thread never goes round its busy-wait loop again.
C13_NeverSpinsAgain ==
    [][\A t \in Threads : Returned(t) => ~LoopsBack(Peer(t))]_vars

\* C13 (amended): the exit store changes only flag[id], to false; from the
\* exit store to the thread's next entry store, and for ever once it has
\* returned, its flag is false and the other thread's wait condition is
\* false; once thread t has returned the other thread never again loads a
\* true flag[id[t]], so it goes round its loop at most for the one
\* evaluation whose flag load preceded t's last exit store.
C13_ExitEffect ==
    /\ [][\A t \in Threads :
            (pc[t] = "exit_store" /\ Steps(t)) =>
                /\ flag' = [flag EXCEPT ![id[t]] = FALSE]
                /\ UNCHANGED <<turn, counter>>]_vars
    /\ [](\A t \in Threads :
            Outside(t) => (~flag[id[t]] /\ ~WaitCond(Peer(t))))
    /\ [][\A t \in Threads :
            /\ Returned(t) => Returned(t)'
            /\ Returned(t) =>
                ~(pc[Peer(t)] = "load_flag" /\ pc'[Peer(t)] = "load_turn")]_vars

\* A thread has returned while the other, which loaded the flag before the
\* last exit store, is still inside its wait loop with turn against it.
C13_Witness ==
    \E t \in Threads :
        Returned(t) /\ pc[Peer(t)] = "load_turn" /\ turn = id[t]

(***************************************************************************)
(* peterson_algorithm.c on a store-buffering (TSO) machine.  A store of    *)
(* flag or turn first enters the storing thread's FIFO buffer sb[t] and    *)
(* reaches memory on a later Drain step.  memory_order_seq_cst forbids a   *)
(* load to be performed before an earlier store of the same thread is      *)
(* visible: a load waits for the thread's buffer to be empty.              *)
(***************************************************************************)

\* memory_order_seq_cst on the stores and loads of flag and turn.
Fenced_relaxed(t) == TRUE

Fenced(t) == sb[t] = <<>>

\* The value thread t loads from a location: its own youngest buffered
\* store to it, else the value in memory.
Forwarded(t, loc, k, mem) ==
    LET js == {j \in 1..Len(sb[t]) : sb[t][j][1] = loc /\ sb[t][j][2] = k}
    IN  IF js = {} THEN mem
        ELSE sb[t][CHOOSE j \in js : \A h \in js : h <= j][3]

\* atomic_store_explicit(&flag[id], true, memory_order_seq_cst);
TsoStoreFlag(t) ==
    /\ pc[t] = "store_flag"
    /\ sb' = [sb EXCEPT ![t] = Append(@, <<"flag", id[t], TRUE>>)]
    /\ Goto(t, "store_turn")
    /\ UNCHANGED <<ITERATIONS, flag, turn, counter, id, i, temp, mainpc, verdict, lost>>

\* atomic_store_explicit(&turn, other, memory_order_seq_cst);
TsoStoreTurn(t) ==
    /\ pc[t] = "store_turn"
    /\ sb' = [sb EXCEPT ![t] = Append(@, <<"turn", 0, Other(t)>>)]
    /\ Goto(t, "load_flag")
    /\ UNCHANGED <<ITERATIONS, flag, turn, counter, id, i, temp, mainpc, verdict, lost>>

\* The left operand of the loop condition.
TsoLoadFlag(t) ==
    /\ pc[t] = "load_flag"
    /\ Fenced(t)
    /\ IF Forwarded(t, "flag", Other(t), flag[Other(t)])
         THEN Goto(t, "load_turn")
         ELSE Goto(t, "cs_read")
    /\ UNCHANGED <<ITERATIONS, flag, turn, counter, id, i, temp, mainpc, verdict, lost, sb>>

\* The right operand of the loop condition.
TsoLoadTurn(t) ==
    /\ pc[t] = "load_turn"
    /\ Fenced(t)
    /\ IF Forwarded(t, "turn", 0, turn) = Other(t)
         THEN Goto(t, "load_flag")
         ELSE Goto(t, "cs_read")
    /\ UNCHANGED <<ITERATIONS, flag, turn, counter, id, i, temp, mainpc, verdict, lost, sb>>

\* atomic_store_explicit(&flag[id], false, memory_order_seq_cst);
TsoExitStore(t) ==
    /\ pc[t] = "exit_store"
    /\ sb' = [sb EXCEPT ![t] = Append(@, <<"flag", id[t], FALSE>>)]
    /\ Goto(t, "for_incr")
    /\ UNCHANGED <<ITERATIONS, flag, turn, counter, id, i, temp, mainpc, verdict, lost>>

\* The oldest buffered store of thread t reaches memory.
Drain(t) ==
    /\ sb[t] # <<>>
    /\ LET e == Head(sb[t])
       IN  /\ flag' = IF e[1] = "flag" THEN [flag EXCEPT ![e[2]] = e[3]] ELSE flag
           /\ turn' = IF e[1] = "turn" THEN e[3] ELSE turn
    /\ sb' = [sb EXCEPT ![t] = Tail(@)]
    /\ UNCHANGED <<ITERATIONS, counter, id, pc, i, temp, mainpc, verdict, lost>>

tso_process(t) ==
    \/ ForCond(t)
    \/ TsoStoreFlag(t)
    \/ TsoStoreTurn(t)
    \/ TsoLoadFlag(t)
    \/ TsoLoadTurn(t)
    \/ CsRead(t)
    \/ CsAdd(t)
    \/ CsWrite(t)
    \/ TsoExitStore(t)
    \/ ForIncr(t)
    \/ Drain(t)

TsoNext == peterson_main \/ \E t \in Threads : tso_process(t)

TsoSpec == Init /\ [][TsoNext]_vars

\* C14: sequential consistency is required. With the seq_cst ordering of
\* the code no state has both threads in the critical section and every
\* finished run has counter = ITERATIONS, also on a machine that buffers
\* stores; dropping the ordering (a load may overtake the thread's own
\* buffered stores) makes both fail.
C14_SeqCstRequired ==
    /\ \A s, t \in Threads : s # t => ~(InCS(s) /\ InCS(t))
    /\ Finished => counter = ITERATIONS

\* Both threads have issued both entry stores and none of the four stores
\* is visible yet: the loads that would let both threads in are held back.
C14_Witness ==
    \A t \in Threads :
        pc[t] = "load_flag" /\ Len(sb[t]) >= 2 /\ ~flag[id[t]]

(***************************************************************************)
(* peterson_process started with any ids, also the same id twice           *)
(***************************************************************************)

\* Every way of handing an id in {0, 1} to each of t1 and t2.
AnyIds == {<<a, b>> : a \in {0, 1}, b \in {0, 1}}

InitAnyIds == InitWith(EvenIterations, AnyIds)

AnyIdSpec == InitAnyIds /\ [][Next]_vars

\* C15: id discipline. Two threads are in the critical section together,
\* or main reports an unexpected count, only when both threads were given
\* the same id; with the same id nothing stops or delays a thread: the flag
\* it loads is never set, so its wait condition is never true.
C15_IdDiscipline ==
    /\ (InCS(1) /\ InCS(2)) => id[1] = id[2]
    /\ verdict = "unexpected" => id[1] = id[2]
    /\ id[1] = id[2] =>
        \A t \in Threads : ~flag[Other(t)] /\ pc[t] # "load_turn"

\* Same id twice: both threads are in the critical section holding the
\* same value of counter, about to write it back twice.
C15_Witness ==
    /\ id[1] = id[2]
    /\ pc[1] = "cs_write" /\ pc[2] = "cs_write" /\ temp[1] = temp[2]

(***************************************************************************)
(* peterson_algorithm.c built with any ITERATIONS, odd ones included       *)
(***************************************************************************)

AnyIterations == 0..MaxIter

InitAnyIterations == InitWith(AnyIterations, {MainIds})

AnyIterSpec == InitAnyIterations /\ [][Next]_vars

\* C16: iteration split. A thread returns after exactly ITERATIONS/2
\* iterations (integer division), so the finished run has counter =
\* 2 * (ITERATIONS/2): ITERATIONS and the success verdict for even
\* ITERATIONS, ITERATIONS - 1 and the other verdict for odd ITERATIONS.
C16_IterationSplit ==
    /\ \A t \in Threads : Returned(t) => i[t] = ITERATIONS \div 2
    /\ Finished =>
        /\ counter = 2 * (ITERATIONS \div 2)
        /\ ITERATIONS % 2 = 0 => (counter = ITERATIONS /\ verdict = "success")
        /\ ITERATIONS % 2 = 1 => (counter = ITERATIONS - 1 /\ verdict = "unexpected")

\* A finished run of a build with an odd ITERATIONS of at least 3.
C16_Witness ==
    Finished /\ ITERATIONS % 2 = 1 /\ ITERATIONS >= 3

\* How many times thread t has entered the critical section so far.
Entries(t) ==
    i[t] + (IF InCS(t) \/ pc[t] = "for_incr" THEN 1 ELSE 0)

\* C17: bounded overtaking. While thread q stays in the busy-wait loop of
\* one iteration (its j-th), the other thread enters the critical section
\* at most once: if it had entered k times at some point of q's wait, it
\* has entered at most k + 1 times at every later point of the same wait.
C17_BoundedOvertaking ==
    \A q \in Threads : \A j \in 0..(MaxIter \div 2) : \A k \in 0..(MaxIter \div 2) :
        []((Waiting(q) /\ i[q] = j /\ Entries(Peer(q)) = k)
            => []((Waiting(q) /\ i[q] = j) => Entries(Peer(q)) <= k + 1))

\* The other thread has been through the critical section and is back in
\* its wait loop behind q, which is still in the wait of its first
\* iteration and now has the turn.
C17_Witness ==
    \E q \in Threads :
        /\ Waiting(q) /\ i[q] = 0 /\ turn = id[q]
        /\ Waiting(Peer(q)) /\ i[Peer(q)] = 1

\* How many critical sections thread t has completed: the write-back of
\* counter is done.
Completed(t) ==
    i[t] + (IF pc[t] \in {"exit_store", "for_incr"} THEN 1 ELSE 0)

\* No thread is between its read of counter and its write-back.
NoPending == \A t \in Threads : pc[t] \notin {"cs_add", "cs_write"}

\* C18: counter accounting. counter never decreases, every write-back
\* raises it by exactly 1, and whenever no thread is between its read and
\* its write-back counter is the number of critical sections completed by
\* both threads.
C18_CounterAccounting ==
    /\ [][counter' >= counter]_vars
    /\ [][\A t \in Threads :
            (pc[t] = "cs_write" /\ Steps(t)) => counter' = counter + 1]_vars
    /\ [](NoPending => counter = Completed(1) + Completed(2))

\* Both threads have completed critical sections and one has just written.
C18_Witness ==
    \E t \in Threads :
        /\ pc[t] = "exit_store" /\ i[t] >= 1 /\ i[Peer(t)] >= 1
        /\ counter = Completed(1) + Completed(2)

\* The statements of thread t between its entry store and its exit store.
Interested(t) ==
    pc[t] \in {"store_turn", "load_flag", "load_turn",
               "cs_read", "cs_add", "cs_write", "exit_store"}

\* C19: own-flag invariant. flag[id] of a thread is true exactly when the
\* thread is between its entry store and its exit store; so a thread in the
\* critical section has its flag set, and both flags are false before the
\* threads start and once both have returned.
C19_OwnFlag ==
    /\ \A t \in Threads : flag[id[t]] <=> Interested(t)
    /\ \A t \in Threads : InCS(t) => flag[id[t]]
    /\ (\A t \in Threads : pc[t] \in {"not_started", "returned"}) =>
        (~flag[0] /\ ~flag[1])

\* One thread is in the critical section with its flag set after the other
\* has returned with its flag cleared.
C19_Witness ==
    \E t \in Threads :
        InCS(t) /\ flag[id[t]] /\ Returned(Peer(t)) /\ ~flag[id[Peer(t)]]
====
